---- MODULE Spec2Model ----
(***************************************************************************)
(* Model of cta.py (car-talk-archiver): main, get_xml_root,                *)
(* get_last_episode_date, get_episodes_from_channel and the paginated      *)
(* harvest loop of get_episodes_from_web, up to the call of generate_feed. *)
(*                                                                         *)
(* Time is counted in half days: the instant of day d at 00:00 UTC is 2*d  *)
(* and of day d at 12:00 UTC is 2*d + 1. A pubDate text of the input feed  *)
(* is the record [day, hh] (hh = 0 for 00:00:00 +0000, 1 for 12:00:00      *)
(* +0000); a date of the remote listing is a bare day number (the          *)
(* datetime attribute carries no time).                                    *)
(*                                                                         *)
(* An entry of the remote listing is identified by a number: the href of   *)
(* its link block, the text of its teaser block and the title of its       *)
(* audio-metadata block all carry that number, so that an episode built    *)
(* from blocks of different entries is visible as such. audio_url,         *)
(* duration and size of an episode take no part in any control decision    *)
(* and are left out of the episode records.                                *)
(***************************************************************************)
EXTENDS Integers, Sequences, FiniteSets

\* ---------------------------------------------------------------- bounds
MaxDay == 2
MaxHead == 2
MaxPages == 2
MaxItems == 3

\* ------------------------------------------------------ program constants
EPS_PER_PAGE == 24
None == 0

Days == 1..MaxDay

\* pubDate texts an input feed may carry: noon of every day, and midnight
\* of the first day (earlier than every date of the remote listing)
PubTexts == {[day |-> d, hh |-> 1] : d \in Days} \cup {[day |-> 1, hh |-> 0]}

\* sequences over S of length lo..hi
SeqsOf(S, lo, hi) == UNION {[1..n -> S] : n \in lo..hi}

Channels == SeqsOf(PubTexts, 0, MaxItems)

InputKinds == {"none", "missing", "unparseable", "nochannel", "feed"}

\* ------------------------------------------------------------ pure helpers
Max(a, b) == IF a >= b THEN a ELSE b

RECURSIVE Reverse(_)
Reverse(s) == IF s = <<>> THEN <<>> ELSE Append(Reverse(Tail(s)), Head(s))

\* datetime.strptime(date_str, '%a, %d %b %Y %H:%M:%S %z') as an instant
strptime_rfc822(text) == 2 * text.day + text.hh

\* strptime(..., '%Y-%m-%d').replace(tzinfo=utc) + timedelta(hours=12)
noon_utc(day) == 2 * day + 1

\* get_date of get_last_episode_date: the parsed pubDate of item k
get_date(channel, k) == strptime_rfc822(channel[k].pubDate)

get_last_episode_date_first(channel) == get_date(channel, 1)
\* max(get_date('./item[1]/pubDate'), get_date('./item[last()]/pubDate'))
get_last_episode_date(channel) ==
    Max(get_date(channel, 1), get_date(channel, Len(channel)))

\* one Episode per item, in document order; pub_date stays the text
get_episodes_from_channel(channel) ==
    [k \in 1..Len(channel) |->
        [title |-> channel[k].title, description |-> channel[k].title,
         pub_date |-> channel[k].pubDate, link |-> channel[k].title]]

\* the items of an input feed: entry k of the file is titled -k
Items(texts) == [k \in 1..Len(texts) |-> [title |-> 0 - k, pubDate |-> texts[k]]]

CombineSources_noreverse(channel_eps, web_eps) == channel_eps \o web_eps
\* get_episodes_from_channel(channel) + get_episodes_from_web(...)[::-1]
CombineSources(channel_eps, web_eps) == channel_eps \o Reverse(web_eps)

\* --------------------------------------------------------- remote listing
\* The page served for offset start: the days of its first entries (head),
\* whether its first entry is a subscriber-only one (no <a> in the title
\* block), whether it is filled up to EPS_PER_PAGE entries with entries of
\* the day of the last head entry, and which of the three collections, if
\* any, lacks the block of the first entry.
PageLen(head, pad) == IF pad THEN EPS_PER_PAGE ELSE Len(head)

DayAt(head, i) ==
    IF i <= Len(head) THEN head[i]
    ELSE IF Len(head) = 0 THEN MaxDay ELSE head[Len(head)]

DropFirst(s, yes) == IF yes /\ s # <<>> THEN Tail(s) ELSE s

Page(start, head, premium, pad, drop) ==
    LET n == PageLen(head, pad) IN
    [status |-> 200,
     link_tags |-> DropFirst([i \in 1..n |->
                      [a |-> IF premium /\ i = 1 THEN None ELSE start + i]],
                      drop = "link"),
     teaser_tags |-> DropFirst([i \in 1..n |->
                      [time |-> DayAt(head, i), text |-> start + i]],
                      drop = "teaser"),
     data_tags |-> DropFirst([i \in 1..n |-> [title |-> start + i]],
                      drop = "data")]

\* a response with an error status: its body holds no listing markup
ErrorPage == [status |-> 503, link_tags |-> <<>>, teaser_tags |-> <<>>,
              data_tags |-> <<>>]

\* past the end of the listing the server answers with an empty page
EmptyPage == [status |-> 200, link_tags |-> <<>>, teaser_tags |-> <<>>,
              data_tags |-> <<>>]

Heads == SeqsOf(Days, 0, MaxHead)

\* The responses the server may give for offset start: a short page of any
\* days in any order, a full page of one day, either with or without a
\* subscriber-only first entry; a short page one of whose collections lacks
\* its first block; a response with an error status.
Pages(start) ==
    {Page(start, h, pr, FALSE, "none") : h \in Heads, pr \in BOOLEAN}
    \cup {Page(start, <<d>>, pr, TRUE, "none") : d \in Days, pr \in BOOLEAN}
    \cup {Page(start, [i \in 1..MaxHead |-> d], FALSE, FALSE, drop) :
             d \in Days, drop \in {"link", "teaser", "data"}}
    \cup {ErrorPage}

\* ------------------------------------------------------------ harvest loop
Min3(a, b, c) == IF a <= b /\ a <= c THEN a ELSE IF b <= c THEN b ELSE c

\* zip(link_tags, teaser_tags, data_tags) stops at the shortest collection
ZipLen(page) ==
    Min3(Len(page.link_tags), Len(page.teaser_tags), Len(page.data_tags))

RanOut_links(page) ==
    Cardinality({i \in 1..ZipLen(page) : page.link_tags[i].a # None}) < EPS_PER_PAGE
\* if len(teaser_tags) < EPS_PER_PAGE: still_eps = False
RanOut(page) == Len(page.teaser_tags) < EPS_PER_PAGE

StopParsing_lt(last_episode_date, pub_date) ==
    last_episode_date # None /\ pub_date < last_episode_date
\* if last_episode_date and pub_date <= last_episode_date: ... break
StopParsing(last_episode_date, pub_date) ==
    last_episode_date # None /\ pub_date <= last_episode_date

\* the for loop over the zipped triples from index i on; eps are the episodes
\* appended so far; brk tells whether the loop was left by break
RECURSIVE ForLoop(_, _, _, _)
ForLoop(page, i, last_episode_date, eps) ==
    IF i > ZipLen(page) THEN [episodes |-> eps, brk |-> FALSE]
    ELSE IF page.link_tags[i].a = None
         THEN ForLoop(page, i + 1, last_episode_date, eps)
    ELSE LET pub_date == noon_utc(page.teaser_tags[i].time) IN
         IF StopParsing(last_episode_date, pub_date)
         THEN [episodes |-> eps, brk |-> TRUE]
         ELSE ForLoop(page, i + 1, last_episode_date,
                  Append(eps, [title |-> page.data_tags[i].title,
                               description |-> page.teaser_tags[i].text,
                               pub_date |-> pub_date,
                               link |-> page.link_tags[i].a]))

\* ------------------------------------------------------------------- state
VARIABLES
    input,              \* what -i names: an InputKinds value
    channel,            \* the items of the input feed's channel
    pc,                 \* "main", "harvest", "exited"
    last_episode_date,  \* cutoff handed to get_episodes_from_web, or None
    channel_episodes,   \* result of get_episodes_from_channel
    episodes,           \* the list get_episodes_from_web builds
    start,              \* index of the first episode of the next page
    still_eps,          \* loop flag of get_episodes_from_web
    fetched,            \* the responses requests.get returned, in order
    raised,             \* an exception left main uncaught
    feed_written,       \* generate_feed was called
    feed_episodes,      \* the sequence handed to generate_feed
    exit_code           \* <<>> while running, then <<status>> of the process

vars == <<input, channel, pc, last_episode_date, channel_episodes, episodes,
          start, still_eps, fetched, raised, feed_written, feed_episodes,
          exit_code>>

Init ==
    /\ input \in InputKinds
    /\ channel \in IF input = "feed" THEN {Items(t) : t \in Channels}
                   ELSE {<<>>}
    /\ pc = "main"
    /\ last_episode_date = None
    /\ channel_episodes = <<>>
    /\ episodes = <<>>
    /\ start = 0
    /\ still_eps = TRUE
    /\ fetched = <<>>
    /\ raised = FALSE
    /\ feed_written = FALSE
    /\ feed_episodes = <<>>
    /\ exit_code = <<>>

Exit(code, exc) ==
    /\ pc' = "exited"
    /\ exit_code' = <<code>>
    /\ raised' = exc

\* get_xml_root returns None (file missing or not well-formed XML): return -1
InputUnreadable ==
    /\ pc = "main"
    /\ input \in {"missing", "unparseable"}
    /\ Exit(255, FALSE)
    /\ UNCHANGED <<input, channel, last_episode_date, channel_episodes,
                   episodes, start, still_eps, fetched, feed_written,
                   feed_episodes>>

\* root.find('channel') is None: return -1
NoChannel ==
    /\ pc = "main"
    /\ input = "nochannel"
    /\ Exit(255, FALSE)
    /\ UNCHANGED <<input, channel, last_episode_date, channel_episodes,
                   episodes, start, still_eps, fetched, feed_written,
                   feed_episodes>>

\* a channel without items: channel.find(...) is None and .text raises
EmptyChannel ==
    /\ pc = "main"
    /\ input = "feed"
    /\ Len(channel) = 0
    /\ Exit(1, TRUE)
    /\ UNCHANGED <<input, channel, last_episode_date, channel_episodes,
                   episodes, start, still_eps, fetched, feed_written,
                   feed_episodes>>

\* main, lines 49 and 52 up to the call of get_episodes_from_web
ReadChannel ==
    /\ pc = "main"
    /\ input = "feed"
    /\ Len(channel) > 0
    /\ last_episode_date' = get_last_episode_date(channel)
    /\ channel_episodes' = get_episodes_from_channel(channel)
    /\ pc' = "harvest"
    /\ UNCHANGED <<input, channel, episodes, start, still_eps, fetched,
                   raised, feed_written, feed_episodes, exit_code>>

\* main, line 54: no input file, get_episodes_from_web()
NoInput ==
    /\ pc = "main"
    /\ input = "none"
    /\ pc' = "harvest"
    /\ UNCHANGED <<input, channel, last_episode_date, channel_episodes,
                   episodes, start, still_eps, fetched, raised, feed_written,
                   feed_episodes, exit_code>>

\* one iteration of the while loop on the response page
Iterate(page) ==
    LET r == ForLoop(page, 1, last_episode_date, episodes) IN
    /\ fetched' = Append(fetched, page)
    /\ episodes' = r.episodes
    /\ still_eps' = (~RanOut(page) /\ ~r.brk)
    /\ start' = start + EPS_PER_PAGE
    /\ UNCHANGED <<input, channel, pc, last_episode_date, channel_episodes,
                   raised, feed_written, feed_episodes, exit_code>>

FetchPage ==
    /\ pc = "harvest"
    /\ still_eps
    /\ \E page \in IF Len(fetched) < MaxPages THEN Pages(start)
                   ELSE {EmptyPage} :
          Iterate(page)

\* requests.get raises (no connection), or a block of the page cannot be
\* parsed (json.loads, strptime, a teaser without <time>): nothing catches it
FetchRaises ==
    /\ pc = "harvest"
    /\ still_eps
    /\ Len(fetched) < MaxPages
    /\ Exit(1, TRUE)
    /\ UNCHANGED <<input, channel, last_episode_date, channel_episodes,
                   episodes, start, still_eps, fetched, feed_written,
                   feed_episodes>>

\* the loop is over: main combines the sources, calls generate_feed, returns 0
GenerateFeed ==
    /\ pc = "harvest"
    /\ ~still_eps
    /\ feed_episodes' = IF input = "feed"
                        THEN CombineSources(channel_episodes, episodes)
                        ELSE episodes
    /\ feed_written' = TRUE
    /\ Exit(0, FALSE)
    /\ UNCHANGED <<input, channel, last_episode_date, channel_episodes,
                   episodes, start, still_eps, fetched>>

Next ==
    \/ InputUnreadable
    \/ NoChannel
    \/ EmptyChannel
    \/ ReadChannel
    \/ NoInput
    \/ FetchPage
    \/ FetchRaises
    \/ GenerateFeed

Spec == Init /\ [][Next]_vars

\* ------------------------------------------------------------- properties
Incremental == input = "feed"

\* the instant of the k-th episode handed to generate_feed: the episodes of
\* the input feed come first and carry the pubDate text
FinalInstant(k) ==
    IF Incremental /\ k <= Len(channel)
    THEN strptime_rfc822(feed_episodes[k].pub_date)
    ELSE feed_episodes[k].pub_date

ItemInstant(k) == strptime_rfc822(channel[k].pubDate)

\* the zipped positions of a page that carry a link and a date at or before
\* the cutoff
CutoffHits(page) ==
    {i \in 1..ZipLen(page) :
        /\ page.link_tags[i].a # None
        /\ last_episode_date # None
        /\ noon_utc(page.teaser_tags[i].time) <= last_episode_date}

\* the links of the harvested episodes that stem from a page
EmittedLinks(page) ==
    {episodes[j].link : j \in 1..Len(episodes)}
        \cap {page.link_tags[i].a : i \in 1..Len(page.link_tags)}

Aligned(page) ==
    /\ Len(page.link_tags) = Len(page.teaser_tags)
    /\ Len(page.teaser_tags) = Len(page.data_tags)

\* C1: in incremental mode the sequence handed to the feed emitter is the
\* episodes of the input feed, in file order, followed by the harvested
\* episodes in reverse harvest order, nothing dropped or added.
C1_MergeOrder ==
    (feed_written /\ Incremental) =>
        /\ Len(feed_episodes) = Len(channel) + Len(episodes)
        /\ \A k \in 1..Len(channel) :
              /\ feed_episodes[k] = channel_episodes[k]
              /\ feed_episodes[k].title = channel[k].title
        /\ \A j \in 1..Len(episodes) :
              feed_episodes[Len(channel) + j] = episodes[Len(episodes) + 1 - j]

C1_Witness ==
    /\ feed_written /\ Incremental
    /\ Len(channel) >= 2
    /\ Len(episodes) >= 2
    /\ episodes[1].pub_date # episodes[Len(episodes)].pub_date

\* C2: in full-harvest mode the sequence handed to the feed emitter is the
\* reverse of the harvest order.
C2_FullHarvestReversed ==
    (feed_written /\ input = "none") =>
        /\ Len(feed_episodes) = Len(episodes)
        /\ \A j \in 1..Len(episodes) :
              feed_episodes[j] = episodes[Len(episodes) + 1 - j]

\* C3: during a harvest with a cutoff every episode in the harvester's list
\* has a publication date strictly later than the cutoff.
C3_CutoffBoundary ==
    last_episode_date # None =>
        \A j \in 1..Len(episodes) : episodes[j].pub_date > last_episode_date

C3_Witness ==
    /\ last_episode_date # None
    /\ episodes # <<>>
    /\ \E k \in 1..Len(fetched) : CutoffHits(fetched[k]) # {}

\* C4 as claimed: a page from which fewer than EPS_PER_PAGE entries were
\* extracted is never followed by another fetch.
C4_ExtractedCountStops ==
    \A k \in 1..(Len(fetched) - 1) :
        Cardinality(EmittedLinks(fetched[k])) >= EPS_PER_PAGE

\* C4 amended: a page is final on its number of teaser blocks, entries
\* without a link included: a page with fewer than EPS_PER_PAGE teaser blocks
\* is never followed by another fetch, and the harvest only ends after a page
\* with fewer teaser blocks than that or one on which the cutoff was met.
C4_TeaserCountStops ==
    /\ \A k \in 1..(Len(fetched) - 1) :
          Len(fetched[k].teaser_tags) >= EPS_PER_PAGE
    /\ feed_written =>
          /\ fetched # <<>>
          /\ \/ Len(fetched[Len(fetched)].teaser_tags) < EPS_PER_PAGE
             \/ CutoffHits(fetched[Len(fetched)]) # {}

C4_Witness ==
    /\ feed_written
    /\ Len(fetched) = 2
    /\ \E i \in 1..Len(fetched[1].link_tags) : fetched[1].link_tags[i].a = None
    /\ Cardinality(EmittedLinks(fetched[1])) = EPS_PER_PAGE - 1
    /\ Len(fetched[2].teaser_tags) \in 1..(EPS_PER_PAGE - 1)

\* C5: an unreadable input, an input without channel, or a network or parse
\* error on any page ends the run with a non-zero exit code, and the feed
\* emitter is never invoked.
ErrorOccurred ==
    \/ input \in {"missing", "unparseable", "nochannel"}
    \/ raised
    \/ \E k \in 1..Len(fetched) : fetched[k].status # 200

C5_ErrorsAbort ==
    ErrorOccurred =>
        /\ ~feed_written
        /\ pc = "exited" => exit_code # <<0>>

\* C6: for an input feed with at least one item the cutoff handed to the
\* harvester is the later of the publication dates of the first and the last
\* item, whatever lies between them.
C6_LastEpisodeDate ==
    (Incremental /\ pc = "harvest") =>
        /\ last_episode_date >= ItemInstant(1)
        /\ last_episode_date >= ItemInstant(Len(channel))
        /\ last_episode_date \in {ItemInstant(1), ItemInstant(Len(channel))}

C6_Witness ==
    /\ Incremental /\ pc = "harvest"
    /\ Len(channel) = 3
    /\ ItemInstant(3) > ItemInstant(1)
    /\ ItemInstant(2) > ItemInstant(3)
    /\ last_episode_date = ItemInstant(3)

ChannelOldestFirst ==
    \A k \in 1..(Len(channel) - 1) : ItemInstant(k) <= ItemInstant(k + 1)

HarvestNewestFirst ==
    \A j \in 1..(Len(episodes) - 1) :
        episodes[j].pub_date >= episodes[j + 1].pub_date

FinalOldestFirst ==
    \A k \in 1..(Len(feed_episodes) - 1) : FinalInstant(k) <= FinalInstant(k + 1)

\* C7 as claimed: with an input feed stored oldest-first the final sequence
\* is oldest-to-newest for any order in which the episodes were harvested.
C7_SortedForAnyHarvestOrder ==
    (feed_written /\ Incremental /\ ChannelOldestFirst) => FinalOldestFirst

\* C7 amended: with an input feed stored oldest-first the final sequence is
\* oldest-to-newest whenever the episodes were harvested newest-first.
C7_SortedForNewestFirstHarvest ==
    (feed_written /\ Incremental /\ ChannelOldestFirst /\ HarvestNewestFirst)
        => FinalOldestFirst

C7_Witness ==
    /\ feed_written /\ Incremental /\ ChannelOldestFirst /\ HarvestNewestFirst
    /\ Len(channel) >= 2
    /\ Len(episodes) >= 2
    /\ episodes[1].pub_date > episodes[Len(episodes)].pub_date

\* C8: on a page with a linked entry dated at or before the cutoff, exactly
\* the linked entries before the first such entry are emitted and the page
\* is the last one fetched; an entry without link never stops the harvest.
C8_StopAtCutoff ==
    \A k \in 1..Len(fetched) :
        LET page == fetched[k]
            hits == CutoffHits(page)
        IN  /\ EmittedLinks(page) =
                  {page.link_tags[i].a : i \in
                      {i \in 1..ZipLen(page) :
                          /\ page.link_tags[i].a # None
                          /\ \A h \in hits : i < h}}
            /\ hits # {} => (k = Len(fetched) /\ ~still_eps)

C8_Witness ==
    /\ Len(fetched) = 2
    /\ episodes # <<>>
    /\ LET page == fetched[2] IN
        \E h \in CutoffHits(page) : \E i \in 1..ZipLen(page) :
            /\ i > h
            /\ page.link_tags[i].a # None
            /\ noon_utc(page.teaser_tags[i].time) > last_episode_date

\* C9: a page whose three collections differ in length makes the harvest
\* fail, and the fields of every emitted episode stem from one entry.
C9_MisalignedFails ==
    /\ \A j \in 1..Len(episodes) :
          /\ episodes[j].link = episodes[j].title
          /\ episodes[j].link = episodes[j].description
    /\ (\E k \in 1..Len(fetched) : ~Aligned(fetched[k])) => ~feed_written

\* C10 as claimed: every harvested episode of the final sequence is dated
\* strictly later than every episode taken from the input feed.
C10_NoOverlap ==
    (feed_written /\ Incremental) =>
        \A k \in 1..Len(channel) :
            \A j \in (Len(channel) + 1)..Len(feed_episodes) :
                FinalInstant(j) > FinalInstant(k)

\* C10 amended: every harvested episode of the final sequence is dated
\* strictly later than the first and the last item of the input feed, hence
\* later than every item when the newest item is the first or the last one.
C10_LaterThanFirstAndLast ==
    (feed_written /\ Incremental) =>
        \A j \in (Len(channel) + 1)..Len(feed_episodes) :
            /\ FinalInstant(j) > ItemInstant(1)
            /\ FinalInstant(j) > ItemInstant(Len(channel))
            /\ (\E n \in {1, Len(channel)} :
                   \A k \in 1..Len(channel) : ItemInstant(k) <= ItemInstant(n))
                => \A k \in 1..Len(channel) : FinalInstant(j) > FinalInstant(k)

C10_Witness ==
    /\ feed_written /\ Incremental
    /\ Len(channel) = 3
    /\ ItemInstant(2) > ItemInstant(1)
    /\ ItemInstant(2) > ItemInstant(3)
    /\ \E j \in (Len(channel) + 1)..Len(feed_episodes) :
          FinalInstant(j) = ItemInstant(2)
====
